---------------------------- MODULE Spec2Model ----------------------------
(***************************************************************************)
(* clack: named connection profiles kept in an INI store (ConfigParser),   *)
(* their secrets kept in the OS keyring, a versioned in-place migration of *)
(* the store on every load, and a templated batch call driven by a CSV.    *)
(*                                                                         *)
(* The store part models src/clack/environment.py and                      *)
(* src/clack/cmd_settings.py; the batch part models                        *)
(* src/clack/cmd_call.py.                                                  *)
(***************************************************************************)
EXTENDS Integers, Sequences, FiniteSets, TLC

(***************************************************************************)
(* Values.  An option of a section is a string, PyNone (an option stored   *)
(* without a value, allow_no_value=True; also Python's None wherever the   *)
(* code handles one) or Absent (the section has no such option).           *)
(***************************************************************************)
PyNone == "<None>"
Absent == "<absent>"

\* Bound of the model: the data rows of a CSV file.
MaxRows == 2

Names == {"a", "b"}

\* The names a command can be given: a profile name or "etc", the name of
\* the section of the global settings, which _get_and_check_name accepts
\* like any other section.
GivenNames == Names \cup {"etc"}
Logins == {"k1", "k2"}

\* The secret that goes with each profile name: the one a legacy store keeps
\* inline, a keyring holds, and the user types.
SecretOf == [a |-> "s1", b |-> "s2", etc |-> "s3"]

\* The answers to the secret prompt of the add and edit flows: the secret,
\* or nothing (the secret is then asked for at call time).
SecretAnswers(name) == {SecretOf[name], ""}

\* The option names the modelled code reads or writes.
OptionNames ==
  {"key", "secret", "api", "host", "is_admin", "version", "default", "env",
   "color_scheme", "output", "verbosity"}

NoOptions == [o \in OptionNames |-> Absent]

\* COMMON_SETTINGS: the default of each common setting.
COMMON_SETTINGS ==
  [color_scheme |-> "monokai", output |-> "json", verbosity |-> "auto"]

\* The running version (version.py is not part of the sources at hand; the
\* newest migration threshold of check_and_upgrade_config is 2.0.0b3).
VERSION == "2.0.0b3"

(***************************************************************************)
(* StrictVersion: "major.minor.patch" with an optional pre-release tag.    *)
(* The parse is a 5-tuple <<major, minor, patch, tag, n>>, tag 0 for "a",  *)
(* 1 for "b" and 2 for a final release, so that the tuple order is         *)
(* StrictVersion's order (a final release sorts after its pre-releases).   *)
(***************************************************************************)
StrictVersion(s) ==
  CASE s = "0.0.1" -> <<0, 0, 1, 2, 0>>
    [] s = "0.3.2" -> <<0, 3, 2, 2, 0>>
    [] s = "0.4.0" -> <<0, 4, 0, 2, 0>>
    [] s = "0.5.0" -> <<0, 5, 0, 2, 0>>
    [] s = "2.0.0b3" -> <<2, 0, 0, 1, 3>>

RECURSIVE TupleLess(_, _, _)
TupleLess(a, b, i) ==
  IF i > Len(a) THEN FALSE
  ELSE IF a[i] # b[i] THEN a[i] < b[i]
  ELSE TupleLess(a, b, i + 1)

VersionLess(a, b) == TupleLess(StrictVersion(a), StrictVersion(b), 1)

\* Python truthiness of a string-or-None value.
Truthy(v) == v \notin {PyNone, Absent, ""}

(***************************************************************************)
(* The configuration: ConfigParser's ordered sections, each a name and its *)
(* options.  The section "etc" holds the global settings.                  *)
(***************************************************************************)
HasSection(cfg, s) == \E i \in DOMAIN cfg : cfg[i].name = s

SectionIndex(cfg, s) == CHOOSE i \in DOMAIN cfg : cfg[i].name = s

HasOption(cfg, s, k) ==
  HasSection(cfg, s) /\ cfg[SectionIndex(cfg, s)].opts[k] # Absent

\* Environment.get
Get(cfg, s, k, fallback) ==
  IF HasSection(cfg, s) /\ HasOption(cfg, s, k)
  THEN cfg[SectionIndex(cfg, s)].opts[k]
  ELSE fallback

AddSection(cfg, s) == Append(cfg, [name |-> s, opts |-> NoOptions])

RemoveOption(cfg, s, k) ==
  [cfg EXCEPT ![SectionIndex(cfg, s)].opts[k] = Absent]

\* Environment.set
Set(cfg, s, k, value) ==
  IF value = PyNone
  THEN IF Get(cfg, s, k, PyNone) # PyNone THEN RemoveOption(cfg, s, k) ELSE cfg
  ELSE LET c == IF HasSection(cfg, s) THEN cfg ELSE AddSection(cfg, s)
       IN [c EXCEPT ![SectionIndex(c, s)].opts[k] = value]

IsProfile(sec) == sec.name # "etc"

RemoveSection(cfg, s) == SelectSeq(cfg, LAMBDA sec : sec.name # s)

\* Environment.sections
Sections(cfg) ==
  LET p == SelectSeq(cfg, IsProfile) IN [i \in DOMAIN p |-> p[i].name]

\* Environment.default
Default(cfg) ==
  LET fallback == IF Len(Sections(cfg)) > 0 THEN Sections(cfg)[1] ELSE PyNone
  IN Get(cfg, "etc", "env", Get(cfg, "etc", "default", fallback))

Range(f) == {f[i] : i \in DOMAIN f}

(***************************************************************************)
(* The keyring: entries (scope, login) -> secret, the scope being the      *)
(* profile name behind the KEYRING_ID prefix.                              *)
(***************************************************************************)
HasSecret(kr, name, key) == \E e \in kr : e.scope = name /\ e.login = key

\* Environment.get_secret
GetSecret(kr, name, key) ==
  IF HasSecret(kr, name, key)
  THEN (CHOOSE e \in kr : e.scope = name /\ e.login = key).secret
  ELSE PyNone

\* Environment.set_secret
SetSecret(kr, name, key, secret) ==
  {e \in kr : ~(e.scope = name /\ e.login = key)}
    \cup {[scope |-> name, login |-> key, secret |-> secret]}

\* keyring.delete_password, which raises PasswordDeleteError when there is
\* no such entry (DeleteRaises).
DeleteRaises(kr, name, key) == ~HasSecret(kr, name, key)

DeletePassword(kr, name, key) ==
  {e \in kr : ~(e.scope = name /\ e.login = key)}


(***************************************************************************)
(* check_and_upgrade_config.  A migration run carries the in-memory        *)
(* configuration, the keyring, the list of upgrade messages and the        *)
(* exception that ended it ("" while none has).                            *)
(***************************************************************************)
NeedsSecretMove(version) == VersionLess(version, "0.4.0")

NeedsAc1Removal(version) == VersionLess(version, "0.5.0")

NeedsDefaultRename(version) == VersionLess(version, "2.0.0b3")

\* Lines 154-160: the loop over the sections that moves inline secrets.
RECURSIVE MoveSecrets(_, _, _)
MoveSecrets(m, secs, i) ==
  IF i > Len(secs) THEN m
  ELSE LET section == secs[i]
           key == Get(m.cfg, section, "key", PyNone)
           secret == Get(m.cfg, section, "secret", PyNone)
       IN IF Truthy(key) /\ Truthy(secret)
          THEN MoveSecrets(
                 [m EXCEPT !.kr = SetSecret(m.kr, section, key, secret),
                           !.cfg = Set(m.cfg, section, "secret", PyNone),
                           !.upgrades = Append(m.upgrades, section)],
                 secs, i + 1)
          ELSE MoveSecrets(m, secs, i + 1)

\* Lines 164-172: the loop over the sections that removes the ac1 profiles.
\* delete_secret is called without fail_silent: a profile with a login and
\* no keyring entry ends the run with PasswordDeleteError.
RECURSIVE RemoveAc1(_, _, _)
RemoveAc1(m, secs, i) ==
  IF i > Len(secs) THEN m
  ELSE LET section == secs[i]
           api == Get(m.cfg, section, "api", PyNone)
           key == Get(m.cfg, section, "key", PyNone)
           removed == [m EXCEPT !.cfg = RemoveSection(m.cfg, section)]
       IN IF api # "ac1" THEN RemoveAc1(m, secs, i + 1)
          ELSE IF ~Truthy(key)
          THEN RemoveAc1(
                 [removed EXCEPT !.upgrades = Append(m.upgrades, section)],
                 secs, i + 1)
          ELSE IF DeleteRaises(m.kr, section, key)
          THEN [removed EXCEPT !.raised = "PasswordDeleteError"]
          ELSE RemoveAc1(
                 [removed EXCEPT !.kr = DeletePassword(m.kr, section, key),
                                 !.upgrades = Append(m.upgrades, section)],
                 secs, i + 1)

\* An ac1 step that leaves lines 173-174 out.
RepointDefaultSkipped(cfg) == cfg

\* Lines 173-174: a default pointer that names no section is re-pointed.
RepointDefault(cfg) ==
  IF Get(cfg, "etc", "default", PyNone) \notin Range(Sections(cfg))
  THEN Set(cfg, "etc", "default",
           IF Len(Sections(cfg)) > 0 THEN Sections(cfg)[1] ELSE PyNone)
  ELSE cfg

\* Lines 178-181: the pointer moves from the option "default" to "env".
RenameDefault(cfg) ==
  LET default == Get(cfg, "etc", "default", PyNone)
  IN IF default # PyNone
     THEN Set(Set(cfg, "etc", "default", PyNone), "etc", "env", default)
     ELSE cfg

\* Lines 183-184: every common setting is set to its default.
AddDefaults(cfg) ==
  Set(Set(Set(cfg, "etc", "color_scheme", COMMON_SETTINGS.color_scheme),
          "etc", "output", COMMON_SETTINGS.output),
      "etc", "verbosity", COMMON_SETTINGS.verbosity)

\* A first step that announces the move and leaves the loop out.
SecretMoveSkipped(m, version) ==
  IF NeedsSecretMove(version)
  THEN [m EXCEPT !.upgrades = Append(m.upgrades, "Moving secrets")]
  ELSE m

\* Lines 152-160.
SecretMoveStep(m, version) ==
  IF NeedsSecretMove(version)
  THEN MoveSecrets([m EXCEPT !.upgrades = Append(m.upgrades, "Moving secrets")],
                   Sections(m.cfg), 1)
  ELSE m

\* Lines 173-174 run when the loop ended without an exception.
Repointed(r) ==
  IF r.raised # "" THEN r ELSE [r EXCEPT !.cfg = RepointDefault(r.cfg)]

\* Lines 162-174.
Ac1RemovalStep(m, version) ==
  IF m.raised = "" /\ NeedsAc1Removal(version)
  THEN Repointed(RemoveAc1(
         [m EXCEPT !.upgrades = Append(m.upgrades, "Removing ac1")],
         Sections(m.cfg), 1))
  ELSE m

\* Lines 176-184.
DefaultRenameStep(m, version) ==
  IF m.raised = "" /\ NeedsDefaultRename(version)
  THEN [m EXCEPT !.cfg = AddDefaults(RenameDefault(m.cfg)),
                 !.upgrades = m.upgrades \o <<"Renaming default", "Adding defaults">>]
  ELSE m

\* A check_and_upgrade_config that forgets line 187.
StampVersionSkipped(cfg) == cfg

\* Line 187.
StampVersion(cfg) == Set(cfg, "etc", "version", VERSION)

\* Lines 189-193: what the load reports once it has saved.
UpgradeReport(version, upgrades) ==
  IF version = "0.0.1" THEN <<"Created your config file.">>
  ELSE <<"Upgraded your config file to the latest version.">> \o upgrades

(***************************************************************************)
(* Environment.__init__: read the file (a missing file reads as no         *)
(* section), then check_and_upgrade_config, which saves when any step ran. *)
(* open(..., 'wb') raises IOError when the directory does not exist.       *)
(* The result: the in-memory configuration, the keyring, the file's        *)
(* content, the exception that ended the load ("" for none), whether the   *)
(* load saved, what it reported, and the version it found.                 *)
(***************************************************************************)
\* check_and_upgrade_config, lines 149-184: the three steps in order.
Upgrade(file, kr, version) ==
  DefaultRenameStep(
    Ac1RemovalStep(
      SecretMoveStep([cfg |-> file, kr |-> kr, upgrades |-> <<>>, raised |-> ""],
                     version),
      version),
    version)

\* check_and_upgrade_config, lines 186-193, on what the steps left.
Upgraded(file, dir, version, m) ==
  IF m.raised # ""
  THEN [cfg |-> file, kr |-> m.kr, disk |-> file, err |-> m.raised,
        saved |-> FALSE, reported |-> <<>>, found |-> version]
  ELSE IF Len(m.upgrades) = 0
  THEN [cfg |-> m.cfg, kr |-> m.kr, disk |-> file, err |-> "",
        saved |-> FALSE, reported |-> <<>>, found |-> version]
  ELSE IF ~dir
  THEN [cfg |-> file, kr |-> m.kr, disk |-> file, err |-> "IOError",
        saved |-> FALSE, reported |-> <<>>, found |-> version]
  ELSE [cfg |-> StampVersion(m.cfg), kr |-> m.kr, disk |-> StampVersion(m.cfg),
        err |-> "", saved |-> TRUE,
        reported |-> UpgradeReport(version, m.upgrades), found |-> version]

CheckAndUpgradeConfig(file, kr, dir, version) ==
  Upgraded(file, dir, version, Upgrade(file, kr, version))

Load(file, kr, dir) ==
  CheckAndUpgradeConfig(file, kr, dir, Get(file, "etc", "version", "0.0.1"))

(***************************************************************************)
(* State.                                                                  *)
(*   disk       the content of config.ini (no section when there is no     *)
(*              file)                                                      *)
(*   dirExists  whether the application directory exists                   *)
(*   keyring    the OS keyring                                             *)
(*   last       the most recent command: its name, how it ended, whether   *)
(*              its load saved a migrated store (and then the version the  *)
(*              load found) and, for a remove that completed, the profile  *)
(*              and login it removed and whether the keyring held an       *)
(*              entry under them                                           *)
(***************************************************************************)
VARIABLES disk, dirExists, keyring, last

storeVars == <<disk, dirExists, keyring, last>>

Outcome(cmd, name, key, out, L, had) ==
  [cmd |-> cmd, name |-> name, key |-> key, out |-> out,
   migrated |-> L.saved, found |-> IF L.saved THEN L.found ELSE PyNone,
   hadSecret |-> had]

\* A command that ends at or right after its load: the file is as the load
\* left it, nothing else is saved.
Stopped(cmd, name, out, L) ==
  [disk |-> L.disk, kr |-> L.kr, dir |-> dirExists, saved |-> FALSE,
   last |-> Outcome(cmd, PyNone, PyNone, out, L, FALSE)]

\* SettingsCommands._get_and_check_name
NameExists(L, name) == HasSection(L.cfg, name)

\* Environment.check: the directory is created when it is missing.
Check(dir) == TRUE

\* API_DEFAULT_HOSTS
API_DEFAULT_HOSTS == [ms1 |-> "api.jwplatform.com", ac2 |-> "api.jwplayer.com"]

(***************************************************************************)
(* Environment.edit, lines 467-480, on the answers of the prompts: the     *)
(* options are set, the secret goes to the keyring under (name, key) or    *)
(* the entry under (name, key) is deleted when the secret was left empty,  *)
(* and the profile becomes the default when it is the only one or the      *)
(* user confirms.  The description and verify_ssl options, which edit also *)
(* writes, are read by no operation of the model and are left out; the     *)
(* question whether an ac2 login is an admin one is answered no.           *)
(***************************************************************************)
EditOptions(cfg, name, api, key, host) ==
  LET c == Set(Set(Set(cfg, name, "key", key), name, "host", host),
               name, "api", api)
  IN IF api = "ac2" THEN Set(c, name, "is_admin", "no") ELSE c

EditSecret(kr, name, key, secret) ==
  IF Truthy(secret) THEN SetSecret(kr, name, key, secret)
  ELSE IF Truthy(GetSecret(kr, name, key)) THEN DeletePassword(kr, name, key)
  ELSE kr

EditDefault(cfg, name, confirm) ==
  IF Len(Sections(cfg)) <= 1 \/ confirm THEN Set(cfg, "etc", "env", name)
  ELSE cfg

Edit(cfg, kr, name, api, key, host, secret, confirm) ==
  [cfg |-> EditDefault(EditOptions(cfg, name, api, key, host), name, confirm),
   kr |-> EditSecret(kr, name, key, secret)]

\* A command that saved the edited configuration e.
Saved(cmd, e, dir, L) ==
  [disk |-> e.cfg, kr |-> e.kr, dir |-> dir, saved |-> TRUE,
   last |-> Outcome(cmd, PyNone, PyNone, "ok", L, FALSE)]

\* SettingsCommands.list (and any command that only loads)
Listed(L) == Stopped("list", PyNone, IF L.err # "" THEN L.err ELSE "ok", L)

ListResult == Listed(Load(disk, keyring, dirExists))

\* SettingsCommands.add, on the loaded environment L
Added(L, name, api, key, secret, confirm) ==
  IF L.err # "" THEN Stopped("add", name, L.err, L)
  ELSE Saved("add",
             Edit(L.cfg, L.kr, name, api, key, API_DEFAULT_HOSTS[api], secret,
                  confirm),
             Check(dirExists), L)

AddResult(name, api, key, secret, confirm) ==
  Added(Load(disk, keyring, dirExists), name, api, key, secret, confirm)

\* SettingsCommands.edit, on the loaded environment L and the profile's api
Edited(L, api, name, key, secret, confirm) ==
  IF L.err # "" THEN Stopped("edit", name, L.err, L)
  ELSE IF ~NameExists(L, name) THEN Stopped("edit", name, "abort: not found", L)
  ELSE IF api \notin DOMAIN API_DEFAULT_HOSTS THEN Stopped("edit", name, "KeyError", L)
  ELSE Saved("edit",
             Edit(L.cfg, L.kr, name, api, key,
                  Get(L.cfg, name, "host", API_DEFAULT_HOSTS[api]), secret,
                  confirm),
             dirExists, L)

EditLoaded(L, name, key, secret, confirm) ==
  Edited(L, Get(L.cfg, name, "api", PyNone), name, key, secret, confirm)

EditResult(name, key, secret, confirm) ==
  EditLoaded(Load(disk, keyring, dirExists), name, key, secret, confirm)

\* A remove that forgets the keyring.
DeleteSecretSkipped(kr, name, key) == kr

\* Environment.delete_secret with fail_silent=True
DeleteSecretSilent(kr, name, key) == DeletePassword(kr, name, key)

\* A remove that deletes the secret before it asks for the confirmation.
RemovedBeforeAsking(L, key, name, confirm) ==
  IF L.err # "" THEN Stopped("remove", name, L.err, L)
  ELSE IF ~NameExists(L, name) THEN Stopped("remove", name, "abort: not found", L)
  ELSE IF ~confirm
  THEN [Stopped("remove", name, "abort: declined", L)
          EXCEPT !.kr = IF key # PyNone THEN DeleteSecretSilent(L.kr, name, key)
                        ELSE L.kr]
  ELSE [disk |-> RemoveSection(L.cfg, name),
        kr |-> IF key # PyNone THEN DeleteSecretSilent(L.kr, name, key)
               ELSE L.kr,
        dir |-> dirExists, saved |-> TRUE,
        last |-> Outcome("remove", name, key, "ok", L,
                         HasSecret(L.kr, name, key))]

\* SettingsCommands.remove, on the loaded environment L and the profile's key
Removed(L, key, name, confirm) ==
  IF L.err # "" THEN Stopped("remove", name, L.err, L)
  ELSE IF ~NameExists(L, name) THEN Stopped("remove", name, "abort: not found", L)
  ELSE IF ~confirm THEN Stopped("remove", name, "abort: declined", L)
  ELSE [disk |-> RemoveSection(L.cfg, name),
        kr |-> IF key # PyNone THEN DeleteSecretSilent(L.kr, name, key)
               ELSE L.kr,
        dir |-> dirExists, saved |-> TRUE,
        last |-> Outcome("remove", name, key, "ok", L,
                         HasSecret(L.kr, name, key))]

RemoveLoaded(L, name, confirm) ==
  Removed(L, Get(L.cfg, name, "key", PyNone), name, confirm)

RemoveResult(name, confirm) ==
  RemoveLoaded(Load(disk, keyring, dirExists), name, confirm)

\* SettingsCommands.default: Environment has no set_default.
Defaulted(L, name) ==
  IF L.err # "" THEN Stopped("default", name, L.err, L)
  ELSE IF ~NameExists(L, name) THEN Stopped("default", name, "abort: not found", L)
  ELSE Stopped("default", name, "AttributeError", L)

DefaultResult(name) == Defaulted(Load(disk, keyring, dirExists), name)

\* SettingsCommands.show
Shown(L, name) ==
  IF L.err # "" THEN Stopped("show", name, L.err, L)
  ELSE IF ~NameExists(L, name) THEN Stopped("show", name, "abort: not found", L)
  ELSE Stopped("show", name, "ok", L)

ShowResult(name) == Shown(Load(disk, keyring, dirExists), name)

\* A purge that leaves the keyring alone.
PurgeSecretsSkipped(cfg, kr, secs, i) == kr

\* SettingsCommands.purge, lines 79-84: every profile's keyring entry under
\* its login is deleted (fail_silent).
RECURSIVE PurgeSecrets(_, _, _, _)
PurgeSecrets(cfg, kr, secs, i) ==
  IF i > Len(secs) THEN kr
  ELSE LET key == Get(cfg, secs[i], "key", PyNone)
       IN PurgeSecrets(cfg,
                       IF key # PyNone THEN DeleteSecretSilent(kr, secs[i], key)
                       ELSE kr,
                       secs, i + 1)

\* SettingsCommands.purge: the directory is removed with the file in it;
\* the in-memory configuration is never saved.
Purged(L, kr, confirm) ==
  IF L.err # "" THEN Stopped("purge", PyNone, L.err, L)
  ELSE IF ~confirm THEN Stopped("purge", PyNone, "abort: declined", L)
  ELSE IF ~dirExists
  THEN [Stopped("purge", PyNone, "abort: rmtree", L) EXCEPT !.kr = kr]
  ELSE [disk |-> <<>>, kr |-> kr, dir |-> FALSE, saved |-> FALSE,
        last |-> Outcome("purge", PyNone, PyNone, "ok", L, kr # L.kr)]

PurgeLoaded(L, confirm) ==
  Purged(L, PurgeSecrets(L.cfg, L.kr, Sections(L.cfg), 1), confirm)

PurgeResult(confirm) == PurgeLoaded(Load(disk, keyring, dirExists), confirm)

(***************************************************************************)
(* The stores a first load can meet.  The legacy program (clack.py) kept   *)
(* key, secret and api inline, wrote no version and kept the default       *)
(* pointer in etc.default, which its remove never cleared.  Later releases *)
(* kept the secret in the keyring (from 0.4.0), had no ac1 profile (from   *)
(* 0.5.0) and stored the version.                                          *)
(***************************************************************************)
\* clack.py, DEFAULTS: the host the legacy add flow offered.
DEFAULTS == [host |-> "api.jwplatform.com"]

Profile(name, key, secret, api) ==
  [name |-> name,
   opts |-> [NoOptions EXCEPT !["key"] = key, !["secret"] = secret,
                              !["api"] = api, !["host"] = DEFAULTS.host]]

Etc(version, default, color) ==
  [name |-> "etc",
   opts |-> [NoOptions EXCEPT !["version"] = version, !["default"] = default,
                              !["color_scheme"] = color]]

DistinctNames(s) == \A i, j \in DOMAIN s : i # j => s[i].name # s[j].name

ProfileSeqs(P) ==
  {s \in UNION {[1..n -> P] : n \in 0..Cardinality(Names)} : DistinctNames(s)}

WithEtc(profiles, etc) ==
  IF etc.opts = NoOptions THEN profiles ELSE Append(profiles, etc)

\* Keyrings that hold, for some of the profiles, one entry under the
\* profile's login.
KeyringsFor(profiles) ==
  {kr \in SUBSET {[scope |-> n, login |-> k, secret |-> SecretOf[n]] :
                     n \in Names, k \in Logins} :
     /\ \A e \in kr : \E i \in DOMAIN profiles :
          profiles[i].name = e.scope /\ profiles[i].opts["key"] = e.login
     /\ \A e, f \in kr : e.scope = f.scope => e = f}

\* The API families of the profiles an older version left in the store: one
\* the migration keeps and the one it removes.  Profiles of the family ac2
\* come into the store through the add command.
LegacyFamilies == {"ms1", "ac1"}

LegacyStores ==
  {[disk |-> WithEtc(ps, Etc(v, d, Absent)), kr |-> {}] :
     ps \in ProfileSeqs({Profile(n, k, SecretOf[n], a) :
              n \in Names, k \in Logins,
              a \in LegacyFamilies}),
     v \in {Absent, "0.3.2"}, d \in {Absent} \cup Names}

KeyringStores ==
  UNION {{[disk |-> WithEtc(ps, Etc("0.4.0", d, Absent)), kr |-> kr] :
            kr \in KeyringsFor(ps), d \in {Absent} \cup Names} :
         ps \in ProfileSeqs({Profile(n, k, Absent, a) :
                  n \in Names, k \in Logins, a \in LegacyFamilies})}

Ac1FreeStores ==
  UNION {{[disk |-> WithEtc(ps, Etc("0.5.0", d, c)), kr |-> kr] :
            kr \in KeyringsFor(ps), d \in {Absent} \cup Names,
            c \in {Absent, "vim"}} :
         ps \in ProfileSeqs({Profile(n, k, Absent, a) :
                  n \in Names, k \in Logins, a \in LegacyFamilies \ {"ac1"}})}

InitialStores == LegacyStores \cup KeyringStores \cup Ac1FreeStores

(***************************************************************************)
(* The call command (cmd_call.py).  Strings that are templated are kept as *)
(* sequences of tokens: a placeholder <<NAME>> is one token, a cell of the *)
(* CSV is one token, and the text between them is cut where the code looks *)
(* at it (a "/" of an endpoint, the "admin" a path starts with, the "{",   *)
(* "}", keys and commas of a parameter literal).                           *)
(***************************************************************************)
\* re.findall(r'(<<(\w+)>>)', ...): the placeholder tokens and the NAME of each.
PlaceholderName ==
  [x \in {"<<id>>", "<<name>>", "<<missing>>"} |->
     CASE x = "<<id>>" -> "id" [] x = "<<name>>" -> "name"
       [] x = "<<missing>>" -> "missing"]

IsPlaceholder(tok) == tok \in DOMAIN PlaceholderName

FindAll(str) == SelectSeq(str, IsPlaceholder)

\* str.replace(search_for, value): every occurrence is replaced.
Replace(str, search_for, value) ==
  [i \in DOMAIN str |-> IF str[i] = search_for THEN value ELSE str[i]]

\* str.strip('/ ')
RECURSIVE Strip(_)
Strip(str) ==
  IF Len(str) = 0 THEN str
  ELSE IF Head(str) \in {"/", " "} THEN Strip(Tail(str))
  ELSE IF str[Len(str)] \in {"/", " "} THEN Strip(SubSeq(str, 1, Len(str) - 1))
  ELSE str

\* Lines 153-155: values[header_row[i]] = val for every cell of the row.
RowValues(header_row, columns) ==
  [h \in {header_row[i] : i \in DOMAIN columns} |->
     columns[CHOOSE i \in DOMAIN columns :
               /\ header_row[i] = h
               /\ \A j \in DOMAIN columns : header_row[j] = h => j <= i]]

\* dict.get(name): None when there is no such key.
ValuesGet(values, name) ==
  IF name \in DOMAIN values THEN values[name] ELSE PyNone

\* Lines 156-158 and 160-162: each placeholder found in the template is
\* replaced in the template (not in the string built so far), and a None
\* from values.get makes str.replace raise TypeError, as a parameter
\* argument of None (<<PyNone>>) makes re.findall.
RECURSIVE Substitute(_, _, _, _, _)
Substitute(template, found, values, i, current) ==
  IF i > Len(found) THEN [err |-> "", out |-> current]
  ELSE LET value == ValuesGet(values, PlaceholderName[found[i]])
       IN IF value = PyNone THEN [err |-> "TypeError", out |-> current]
          ELSE Substitute(template, found, values, i + 1,
                          Replace(template, found[i], value))

TemplateParams(params_str_, values) ==
  IF params_str_ = <<PyNone>>
  THEN [err |-> "TypeError", out |-> params_str_]
  ELSE Substitute(params_str_, FindAll(params_str_), values, 1, params_str_)

TemplateEndpoint(endpoint_, values) ==
  LET r == Substitute(endpoint_, FindAll(endpoint_), values, 1, endpoint_)
  IN IF Len(FindAll(endpoint_)) = 0 THEN r ELSE [r EXCEPT !.out = Strip(r.out)]

(***************************************************************************)
(* ast.literal_eval followed by isinstance(params, dict), on the flat      *)
(* mappings of the model: "{" , then key and literal value pairs separated *)
(* by commas, then "}".  A bare word such as x, a placeholder left in the  *)
(* string or a "-" is no literal.                                          *)
(***************************************************************************)
KeyTokens == {"'id': ", "'n': "}

LiteralTokens == {"7", "8", "'x'"}

IsDictLiteral(str) ==
  /\ Len(str) >= 2
  /\ str[1] = "{"
  /\ str[Len(str)] = "}"
  /\ LET n == Len(str) - 2
     IN /\ n = 0 \/ n % 3 = 2
        /\ \A p \in 1..n :
             CASE p % 3 = 1 -> str[p + 1] \in KeyTokens
               [] p % 3 = 2 -> str[p + 1] \in LiteralTokens
               [] OTHER -> str[p + 1] = ", "

\* The parameter argument that was not given (None).
NoParams == <<PyNone>>

\* CallCommands._parse_params: None parses to {}; anything that is no
\* mapping ends the process through Environment.abort.
ParseParams(params) == params = NoParams \/ IsDictLiteral(params)

\* _api_config without the test of lines 67-71: a missing name goes on to
\* the lookups of lines 72-82.
ApiConfigUnchecked(cfg, kr, env) ==
  LET name == IF env = PyNone THEN Default(cfg) ELSE env
      key == Get(cfg, name, "key", PyNone)
      stored == GetSecret(kr, name, key)
      host == Get(cfg, name, "host", PyNone)
      api == Get(cfg, name, "api", PyNone)
  IN IF host = PyNone THEN [err |-> "AttributeError"]
     ELSE [err |-> "", api |-> api, env |-> name, key |-> key,
           secret |-> IF stored = PyNone THEN "<prompted>" ELSE stored,
           is_admin |-> IF api = "ac2"
                        THEN Get(cfg, name, "is_admin", "no") = "yes"
                        ELSE FALSE]

(***************************************************************************)
(* CallCommands._api_config on the environment option alone (no --host,    *)
(* --key or --api): the profile is the named one or the default; with no   *)
(* profile at all the command aborts; a secret that is not in the keyring  *)
(* is asked for.                                                           *)
(***************************************************************************)
ApiConfig(cfg, kr, env) ==
  LET name == IF env = PyNone THEN Default(cfg) ELSE env
      key == Get(cfg, name, "key", PyNone)
      stored == GetSecret(kr, name, key)
      host == Get(cfg, name, "host", PyNone)
      api == Get(cfg, name, "api", PyNone)
  IN IF name = PyNone THEN [err |-> "abort: insufficient config"]
     ELSE IF host = PyNone THEN [err |-> "AttributeError"]
     ELSE [err |-> "", api |-> api, env |-> name, key |-> key,
           secret |-> IF stored = PyNone THEN "<prompted>" ELSE stored,
           is_admin |-> IF api = "ac2"
                        THEN Get(cfg, name, "is_admin", "no") = "yes"
                        ELSE FALSE]

\* The path segments of the model that start with the letters "admin", each
\* with what is left of it after its first five characters.
AdminPrefixed == [admin |-> <<>>, administrators |-> <<"istrators">>]

\* endpoint.startswith('admin')
StartsWithAdmin(endpoint_) ==
  Len(endpoint_) >= 1 /\ endpoint_[1] \in DOMAIN AdminPrefixed

\* endpoint[5:]
DropFive(endpoint_) == AdminPrefixed[endpoint_[1]] \o Tail(endpoint_)

\* Lines 20-21: a leading "v2/" is dropped.
WithoutV2(endpoint_) ==
  IF Len(endpoint_) >= 2 /\ endpoint_[1] = "v2" /\ endpoint_[2] = "/"
  THEN SubSeq(endpoint_, 3, Len(endpoint_)) ELSE endpoint_

\* CallCommands._call_ac2, lines 20-24: a leading "v2/" is dropped; while
\* the configuration is not an admin one, an endpoint that starts with the
\* letters "admin" loses its first five characters and the configuration
\* becomes an admin one.
NormalizeAc2(endpoint_, is_admin) ==
  IF ~is_admin /\ StartsWithAdmin(WithoutV2(endpoint_))
  THEN [endpoint |-> DropFive(WithoutV2(endpoint_)), is_admin |-> TRUE]
  ELSE [endpoint |-> WithoutV2(endpoint_), is_admin |-> is_admin]

\* What reaches the backend client, per API family.
Dispatched(api_, endpoint_, is_admin) ==
  IF api_ = "ac2" THEN NormalizeAc2(endpoint_, is_admin)
  ELSE [endpoint |-> endpoint_, is_admin |-> is_admin]

\* What the backend answers to a call: the HTTP status of its response.
Statuses == {200, 404}

\* str(resp.status_code).startswith('2'), for a status of three digits.
StartsWith2(status) == status \div 100 = 2

\* jwplatform.Client answers an error response by raising a JWPlatformError.
RaisesJWPlatformError(status) == ~StartsWith2(status)

\* A batch in which every row counts as a success.
BatchResultAlwaysTrue(api_, status) == TRUE

\* What a call method returns with batch=True.  _call_ms1, lines 46-54: the
\* client raises a JWPlatformError for an error response, which is caught
\* and gives False; a response gives True.  _call_ac2, lines 28-31: the raw
\* response is returned and its status decides.
BatchResult(api_, status) ==
  IF api_ = "ms1" THEN ~RaisesJWPlatformError(status) ELSE StartsWith2(status)

(***************************************************************************)
(* State of a call.                                                        *)
(*   pc            "idle" before the command; in a batch "loop" (line      *)
(*                 149), "templated" (after 158), "parsed" (after 159),    *)
(*                 "ready" (after 162); then "done", "exited" (sys.exit    *)
(*                 through Environment.abort) or "crashed" (an exception   *)
(*                 nobody catches)                                         *)
(*   exit          what ended the process ("" while it runs or is done)    *)
(*   api, config   the API family and the configuration _api_config built  *)
(*   endpoint, params_str   the templates given on the command line        *)
(*   header_row, table      the CSV: its first row and its data rows       *)
(*   row           the number of data rows read so far                     *)
(*   call_params, call_endpoint   the current row's templated strings      *)
(*   results       the (first cell, success) pairs recorded so far         *)
(*   calls         what was dispatched to the backend, in order            *)
(***************************************************************************)
VARIABLES pc, exit, api, config, endpoint, params_str, header_row, table, row,
          call_params, call_endpoint, results, calls

callVars ==
  <<pc, exit, api, config, endpoint, params_str, header_row, table, row,
    call_params, call_endpoint, results, calls>>

vars == <<storeVars, callVars>>

NoCommand ==
  [cmd |-> "none", name |-> PyNone, key |-> PyNone, out |-> "ok",
   migrated |-> FALSE, found |-> PyNone, hadSecret |-> FALSE]

InitStore ==
  /\ last = NoCommand
  /\ \/ /\ dirExists = FALSE
        /\ disk = <<>>
        /\ keyring = {}
     \/ /\ dirExists = TRUE
        /\ \E st \in InitialStores : disk = st.disk /\ keyring = st.kr

(***************************************************************************)
(* The commands.  Each is one run of the program: load, act, save.         *)
(***************************************************************************)
Apply(r) ==
  /\ disk' = r.disk
  /\ keyring' = r.kr
  /\ dirExists' = r.dir
  /\ last' = r.last

List ==
  /\ Apply(ListResult)
  /\ UNCHANGED callVars

Add ==
  \E name \in Names, family \in DOMAIN API_DEFAULT_HOSTS, key \in Logins,
     confirm \in BOOLEAN : \E secret \in SecretAnswers(name) :
    /\ Apply(AddResult(name, family, key, secret, confirm))
    /\ UNCHANGED callVars

EditCmd ==
  \E name \in Names, key \in Logins, confirm \in BOOLEAN :
    \E secret \in SecretAnswers(name) :
      /\ Apply(EditResult(name, key, secret, confirm))
      /\ UNCHANGED callVars

Remove ==
  \E name \in GivenNames, confirm \in BOOLEAN :
    /\ Apply(RemoveResult(name, confirm))
    /\ UNCHANGED callVars

DefaultCmd ==
  \E name \in Names :
    /\ Apply(DefaultResult(name))
    /\ UNCHANGED callVars

Show ==
  \E name \in Names :
    /\ Apply(ShowResult(name))
    /\ UNCHANGED callVars

Purge ==
  \E confirm \in BOOLEAN :
    /\ Apply(PurgeResult(confirm))
    /\ UNCHANGED callVars

\* The templates, endpoints and CSV files of the model.
ParamTemplates ==
  {<<"{", "'id': ", "<<id>>", ", ", "'n': ", "<<name>>", "}">>,
   <<"<<id>>", "-", "<<name>>">>,
   <<"{", "'n': ", "<<name>>", "}">>,
   <<"{", "'id': ", "<<id>>", ", ", "'n': ", "<<id>>", "}">>,
   <<"{", "'n': ", "<<missing>>", "}">>,
   <<"{", "'id': ", "7", "}">>}

EndpointTemplates ==
  {<<"videos", "/", "list">>,
   <<"/", "videos", "/", "<<id>>", "/">>,
   <<"<<id>>", "/", "<<name>>">>,
   <<"videos", "/", "<<missing>>">>,
   <<"v2", "/", "admin", "/", "users">>,
   <<"administrators", "/", "list">>}

Header == <<"id", "name">>

DataRows == {<<i, n>> : i \in {"7", "8"}, n \in {"x", "'x'"}}

CsvTables == UNION {[1..n -> DataRows] : n \in 0..MaxRows}

InitCall ==
  /\ pc = "idle"
  /\ exit = ""
  /\ api = PyNone
  /\ config = [err |-> "", api |-> PyNone, env |-> PyNone, key |-> PyNone,
               secret |-> PyNone, is_admin |-> FALSE]
  /\ endpoint = <<>>
  /\ params_str = <<>>
  /\ header_row = <<>>
  /\ table = <<>>
  /\ row = 0
  /\ call_params = <<>>
  /\ call_endpoint = <<>>
  /\ results = <<>>
  /\ calls = <<>>

\* The process ends: sys.exit(1) in Environment.abort, or an exception.
Ends(how, why) == pc' = how /\ exit' = why

\* The backend client of the family is called once with what Dispatched
\* gives; config.is_admin keeps what _call_ac2 set.
Backend(endpoint_, params, status) ==
  LET d == Dispatched(api, endpoint_, config.is_admin)
  IN /\ calls' = Append(calls, [endpoint |-> d.endpoint, params |-> params,
                                is_admin |-> d.is_admin, status |-> status])
     /\ config' = [config EXCEPT !.is_admin = d.is_admin]

(***************************************************************************)
(* CallCommands.call, lines 130-151: the store is loaded, the              *)
(* configuration resolved, the endpoint stripped; without a CSV file the   *)
(* single call is made (lines 139-141), with one the header row is read.   *)
(***************************************************************************)
StartCall(env, endpoint_, params_str_, csv_file, csv) ==
  LET L == Load(disk, keyring, dirExists)
      c == ApiConfig(L.cfg, L.kr, env)
  IN /\ pc = "idle"
     /\ disk' = L.disk
     /\ keyring' = L.kr
     /\ last' = [NoCommand EXCEPT !.cmd = "call", !.name = env]
     /\ UNCHANGED dirExists
     /\ UNCHANGED <<row, call_params, call_endpoint, results>>
     /\ IF L.err # "" \/ c.err # "" \/ c.api \notin {"ms1", "ac2"}
        THEN /\ IF L.err # "" THEN Ends("crashed", L.err)
                ELSE IF c.err = "abort: insufficient config"
                THEN Ends("exited", c.err)
                ELSE Ends("crashed", "AttributeError")
             /\ UNCHANGED <<api, config, endpoint, params_str, header_row,
                            table, calls>>
        ELSE /\ api' = c.api
             /\ endpoint' = Strip(endpoint_)
             /\ params_str' = params_str_
             /\ IF ~csv_file
                THEN /\ UNCHANGED <<header_row, table>>
                     /\ IF ParseParams(params_str_)
                        THEN /\ Ends("done", "")
                             /\ LET d == Dispatched(c.api, Strip(endpoint_),
                                                    c.is_admin)
                                IN /\ \E status \in Statuses :
                                        calls' = <<[endpoint |-> d.endpoint,
                                                    params |-> params_str_,
                                                    is_admin |-> d.is_admin,
                                                    status |-> status]>>
                                   /\ config' = [c EXCEPT !.is_admin = d.is_admin]
                        ELSE /\ Ends("exited", "abort: params")
                             /\ config' = c
                             /\ UNCHANGED calls
                ELSE /\ header_row' = Header
                     /\ table' = csv
                     /\ config' = c
                     /\ Ends("loop", "")
                     /\ UNCHANGED calls

Call ==
  \E env \in Names \cup {PyNone}, endpoint_ \in EndpointTemplates,
     params_str_ \in ParamTemplates \cup {NoParams} :
    \/ StartCall(env, endpoint_, params_str_, FALSE, <<>>)
    \/ \E csv \in CsvTables : StartCall(env, endpoint_, params_str_, TRUE, csv)

\* Lines 153-158: the row's values and the templated parameter string.
TemplateRowParams ==
  /\ pc = "loop"
  /\ row < Len(table)
  /\ row' = row + 1
  /\ LET t == TemplateParams(params_str, RowValues(header_row, table[row + 1]))
     IN IF t.err # ""
        THEN Ends("crashed", t.err) /\ UNCHANGED call_params
        ELSE Ends("templated", "") /\ call_params' = t.out
  /\ UNCHANGED <<storeVars, api, config, endpoint, params_str, header_row,
                 table, call_endpoint, results, calls>>

\* Line 159: _parse_params, which aborts the process on a string that is
\* no mapping.
ParseRowParams ==
  /\ pc = "templated"
  /\ IF ParseParams(call_params)
     THEN Ends("parsed", "")
     ELSE Ends("exited", "abort: params")
  /\ UNCHANGED <<storeVars, api, config, endpoint, params_str, header_row,
                 table, row, call_params, call_endpoint, results, calls>>

\* Lines 160-162: the templated endpoint.
TemplateRowEndpoint ==
  /\ pc = "parsed"
  /\ LET t == TemplateEndpoint(endpoint, RowValues(header_row, table[row]))
     IN IF t.err # ""
        THEN Ends("crashed", t.err) /\ UNCHANGED call_endpoint
        ELSE Ends("ready", "") /\ call_endpoint' = t.out
  /\ UNCHANGED <<storeVars, api, config, endpoint, params_str, header_row,
                 table, row, call_params, results, calls>>

\* A loop that sends the call of a row a second time.
DispatchRowTwice ==
  /\ pc = "ready"
  /\ \E status \in Statuses :
       /\ calls' = calls \o
            << [endpoint |-> call_endpoint, params |-> call_params,
                is_admin |-> config.is_admin, status |-> status],
               [endpoint |-> call_endpoint, params |-> call_params,
                is_admin |-> config.is_admin, status |-> status] >>
       /\ results' = Append(results, <<table[row][1], BatchResult(api, status)>>)
  /\ Ends("loop", "")
  /\ UNCHANGED <<storeVars, api, config, endpoint, params_str, header_row,
                 table, row, call_params, call_endpoint>>

\* Lines 163-164: the call is made and (first cell, success) is appended.
\* The backend answers with a status.
DispatchRow ==
  /\ pc = "ready"
  /\ \E status \in Statuses :
       /\ Backend(call_endpoint, call_params, status)
       /\ results' = Append(results, <<table[row][1], BatchResult(api, status)>>)
  /\ Ends("loop", "")
  /\ UNCHANGED <<storeVars, api, endpoint, params_str, header_row, table, row,
                 call_params, call_endpoint>>

\* Lines 165-172: after the last row the results are printed.
FinishBatch ==
  /\ pc = "loop"
  /\ row = Len(table)
  /\ Ends("done", "")
  /\ UNCHANGED <<storeVars, api, config, endpoint, params_str, header_row,
                 table, row, call_params, call_endpoint, results, calls>>

(***************************************************************************)
(* A save that is interrupted.  Environment.save opens config.ini with     *)
(* mode 'wb', which empties the file, and then writes the sections one     *)
(* after another: a process that is killed in between leaves the sections  *)
(* written so far.                                                         *)
(***************************************************************************)
Interrupted(content, kr, how) ==
  /\ \E k \in 0..(Len(content) - 1) : disk' = SubSeq(content, 1, k)
  /\ keyring' = kr
  /\ last' = [cmd |-> "killed", name |-> PyNone, key |-> PyNone, out |-> how,
              migrated |-> FALSE, found |-> PyNone, hadSecret |-> FALSE]

\* The save of a run that was going to hand r.disk to Environment.save.
Killed(r, how) == r.saved /\ Interrupted(r.disk, r.kr, how)

\* Killed in the save of check_and_upgrade_config (line 188).
KilledInUpgradeSave ==
  /\ Killed(Load(disk, keyring, dirExists), "killed in upgrade")
  /\ UNCHANGED <<dirExists, callVars>>

\* Killed in the save that ends add, edit or remove.
KilledInCommandSave ==
  \E name \in Names, key \in Logins, confirm \in BOOLEAN :
    \E secret \in SecretAnswers(name) :
      /\ \/ \E family \in DOMAIN API_DEFAULT_HOSTS :
              Killed(AddResult(name, family, key, secret, confirm),
                     "killed in save")
         \/ Killed(EditResult(name, key, secret, confirm), "killed in save")
         \/ Killed(RemoveResult(name, TRUE), "killed in save")
      /\ UNCHANGED <<dirExists, callVars>>

(***************************************************************************)
(* Specifications.                                                         *)
(*   Spec      the settings commands over every store a load can meet      *)
(*   SpecKill  list and remove, with the saves of the load and of          *)
(*             add, edit and remove that may be interrupted, over the      *)
(*             stores of SpecCall and one legacy store                     *)
(*   SpecCall  one call command, single or batch, over a migrated store    *)
(***************************************************************************)
Init == InitStore /\ InitCall

Next == List \/ Add \/ EditCmd \/ Remove \/ DefaultCmd \/ Show \/ Purge

Spec == Init /\ [][Next]_vars

\* The stores of SpecCall: two profiles, one per API family, the first the
\* default and with its secret in the keyring; the same without the second
\* profile; and no profile at all.
MigratedEtc(env) ==
  [name |-> "etc",
   opts |-> [NoOptions EXCEPT !["version"] = VERSION, !["env"] = env,
               !["color_scheme"] = COMMON_SETTINGS.color_scheme,
               !["output"] = COMMON_SETTINGS.output,
               !["verbosity"] = COMMON_SETTINGS.verbosity]]

Ac2Profile(name, key) ==
  [name |-> name,
   opts |-> [NoOptions EXCEPT !["key"] = key, !["api"] = "ac2",
               !["host"] = API_DEFAULT_HOSTS.ac2, !["is_admin"] = "no"]]

CallStores ==
  {[disk |-> <<Profile("a", "k1", Absent, "ms1"), MigratedEtc("a"),
               Ac2Profile("b", "k2")>>,
    kr |-> {[scope |-> "a", login |-> "k1", secret |-> "s1"]}],
   [disk |-> <<Ac2Profile("a", "k2"), MigratedEtc("a")>>, kr |-> {}],
   [disk |-> <<MigratedEtc(Absent)>>, kr |-> {}]}

InitCallStore ==
  /\ last = NoCommand
  /\ dirExists = TRUE
  /\ \E st \in CallStores : disk = st.disk /\ keyring = st.kr

NextCall ==
  \/ Call
  \/ TemplateRowParams
  \/ ParseRowParams
  \/ TemplateRowEndpoint
  \/ DispatchRow
  \/ FinishBatch

InitOfCall == InitCallStore /\ InitCall

SpecCall == InitOfCall /\ [][NextCall]_vars

\* The stores of SpecKill: those of SpecCall and one legacy store, whose
\* first load migrates and saves.
KillStores ==
  CallStores
    \cup {[disk |-> <<Profile("a", "k1", SecretOf["a"], "ms1"),
                      Etc(Absent, "a", Absent)>>,
           kr |-> {}]}

InitOfKill ==
  /\ last = NoCommand
  /\ dirExists = TRUE
  /\ \E st \in KillStores : disk = st.disk /\ keyring = st.kr
  /\ InitCall

NextKill ==
  List \/ Remove \/ KilledInUpgradeSave \/ KilledInCommandSave

SpecKill == InitOfKill /\ [][NextKill]_vars

(***************************************************************************)
(* Properties of the call command, checked under SpecCall.                 *)
(***************************************************************************)
\* The template with every placeholder the row has a value for replaced.
SubstituteAll(template, values) ==
  [i \in DOMAIN template |->
     IF IsPlaceholder(template[i])
          /\ PlaceholderName[template[i]] \in DOMAIN values
     THEN values[PlaceholderName[template[i]]]
     ELSE template[i]]

\* The placeholders of a template whose NAME is no column of the header.
UnknownPlaceholders(template) ==
  {template[i] : i \in {j \in DOMAIN template :
     /\ IsPlaceholder(template[j])
     /\ PlaceholderName[template[j]] \notin Range(header_row)}}

InBatch == header_row # <<>>

\* C1: once a data row's parameter string is templated (every placeholder
\* of the template being a column of the header), it is the template with
\* every placeholder replaced by the row's value: <<id>>-<<name>> with
\* id=7, name=x gives 7-x.
C1_EveryPlaceholderReplaced ==
  pc = "templated" =>
    call_params =
      SubstituteAll(params_str, RowValues(header_row, table[row]))

\* C2: templating a row whose parameter or endpoint template has a
\* placeholder that is no column of the header raises no error, and the
\* placeholder is still in the templated string.
C2_UnknownPlaceholderLeftVerbatim ==
  (/\ InBatch
   /\ row >= 1
   /\ params_str # NoParams
   /\ UnknownPlaceholders(params_str) \cup UnknownPlaceholders(endpoint) # {})
  => /\ pc # "crashed"
     /\ pc = "templated" =>
          \A i \in DOMAIN params_str :
            params_str[i] \in UnknownPlaceholders(params_str)
              => call_params[i] = params_str[i]

\* C3: a row whose templated parameter string is no mapping does not end
\* the batch: the process does not exit, and when the loop comes back for
\* the next row the row is on record as (first cell, FALSE).
C3_MalformedRowIsRecorded ==
  (InBatch /\ row >= 1 /\ ~ParseParams(call_params)
     /\ pc \in {"exited", "loop", "done"})
  => /\ pc # "exited"
     /\ Len(results) = row
     /\ results[row] = <<table[row][1], FALSE>>

\* C4: a batch that was given a parameter template and has ended, however
\* it ended, has one record per data row, the i-th with the first cell of
\* the i-th row.
C4_OneRecordPerRow ==
  (InBatch /\ params_str # NoParams /\ pc \in {"done", "exited", "crashed"})
  => /\ Len(results) = Len(table)
     /\ \A i \in DOMAIN results : results[i][1] = table[i][1]

(***************************************************************************)
(* Properties of the settings commands, checked under Spec.                *)
(***************************************************************************)
Completed(cmds) == last.cmd \in cmds /\ last.out = "ok"

\* C5: after an add, an edit or a remove has completed, the default the
\* saved store resolves to (Environment.default) is a profile of the store
\* or None.
C5_DefaultNamesAProfile ==
  Completed({"add", "edit", "remove"})
  => Default(disk) \in Range(Sections(disk)) \cup {PyNone}

\* C6: after an add or an edit has completed, every keyring entry under
\* the scope of a profile is keyed by that profile's login, so there is at
\* most one per profile and none under an earlier login.
C6_OneEntryUnderCurrentLogin ==
  Completed({"add", "edit"})
  => \A e \in keyring :
       HasSection(disk, e.scope) => e.login = Get(disk, e.scope, "key", PyNone)

\* C7: after a confirmed remove of an existing profile has completed, the
\* keyring has no entry under the profile's (name, login) and the saved
\* store has no section of that name.
C7_RemoveLeavesNoSecretAndNoSection ==
  Completed({"remove"})
  => /\ ~HasSecret(keyring, last.name, last.key)
     /\ ~HasSection(disk, last.name)

\* A remove has completed on a profile whose secret was in the keyring.
C7_Witness == Completed({"remove"}) /\ last.hadSecret

(***************************************************************************)
(* C8, checked under SpecKill.  What a command of the state can hand to    *)
(* Environment.save.                                                       *)
(***************************************************************************)
CommandSaves(name) ==
  {r.disk : r \in
     {x \in {RemoveResult(name, TRUE)}
              \cup {EditResult(name, key, secret, confirm) :
                      key \in Logins, secret \in SecretAnswers(name),
                      confirm \in BOOLEAN}
              \cup {AddResult(name, family, key, secret, confirm) :
                      family \in DOMAIN API_DEFAULT_HOSTS, key \in Logins,
                      secret \in SecretAnswers(name), confirm \in BOOLEAN} :
        x.saved}}

SaveContents ==
  {Load(disk, keyring, dirExists).disk}
    \cup UNION {CommandSaves(name) : name \in Names}

\* C8: a save that is interrupted leaves the file with the content it had
\* or with the complete content that was being saved, never less.
C8_SaveIsAtomic ==
  [][last'.cmd = "killed" => disk' \in {disk} \cup SaveContents]_vars

(***************************************************************************)
(* Properties of the load, checked under Spec.                             *)
(***************************************************************************)
LoadedWithoutProfiles(L) == L.err = "" /\ Sections(L.cfg) = <<>>

\* C9: with no directory and no file, the load of any command completes
\* without an error and gives a store with no profile.
C9_FirstLoadCompletes ==
  (~dirExists /\ disk = <<>>)
  => LoadedWithoutProfiles(Load(disk, keyring, dirExists))

LoadChangesNothing(L) ==
  /\ L.err = ""
  /\ ~L.saved
  /\ L.cfg = disk
  /\ L.disk = disk
  /\ L.kr = keyring

\* The store is as the load of the last command saved it after migrating:
\* the command itself removed nothing from it afterwards.
LeftAsMigrated ==
  last.migrated /\ dirExists /\ ~Completed({"remove", "purge"})

\* C10: once the load of a command has migrated and saved the store, the
\* next load of that store runs no step and saves nothing: profiles,
\* global settings, version and keyring are as they were.
C10_SecondLoadChangesNothing ==
  LeftAsMigrated => LoadChangesNothing(Load(disk, keyring, dirExists))

\* A load has migrated a store with profiles and moved a secret to the
\* keyring.
C10_Witness ==
  LeftAsMigrated /\ Len(Sections(disk)) > 0 /\ keyring # {}

(***************************************************************************)
(* Properties of the migration steps, checked under Spec on the commands   *)
(* that only load (list, show, default): the file before the step is the   *)
(* store the load met, the file after it the store the load saved.         *)
(***************************************************************************)
LoadOnly == {"list", "show", "default"}

\* The step from a store to the store a load-only command migrated and saved.
MigratedByLoad == last'.cmd \in LoadOnly /\ last'.migrated

StoredVersion(cfg) == Get(cfg, "etc", "version", "0.0.1")

\* C11: a load that migrates leaves every common setting (color_scheme,
\* output, verbosity) that had a value in the store with that value.
C11_StoredSettingsKept ==
  [][MigratedByLoad =>
       \A opt \in DOMAIN COMMON_SETTINGS :
         Get(disk, "etc", opt, PyNone) # PyNone
           => Get(disk', "etc", opt, PyNone) = Get(disk, "etc", opt, PyNone)]_vars

\* The section is a profile with a login and an inline secret.
HasInlineSecret(sec) ==
  IsProfile(sec) /\ Truthy(sec.opts["key"]) /\ Truthy(sec.opts["secret"])

\* In the store cfg and the keyring kr, the secret the section kept inline
\* is in the keyring under (name, login) and no longer in the store.
SecretMoved(sec, cfg, kr) ==
  /\ GetSecret(kr, sec.name, sec.opts["key"]) = sec.opts["secret"]
  /\ Get(cfg, sec.name, "secret", PyNone) = PyNone

\* C12 as stated: after the load of a store below 0.4.0, every profile that
\* had a login and an inline secret has the secret in the keyring under
\* (name, login) and no secret option in the store.
C12_EverySecretMoved ==
  [][(MigratedByLoad /\ VersionLess(StoredVersion(disk), "0.4.0")) =>
       \A i \in DOMAIN disk :
         HasInlineSecret(disk[i]) => SecretMoved(disk[i], disk', keyring')]_vars

\* C12, amended: the same for every such profile whose api is not ac1; an
\* ac1 profile is removed by the next step, and its secret with it.
C12_EveryKeptSecretMoved ==
  [][(MigratedByLoad /\ VersionLess(StoredVersion(disk), "0.4.0")) =>
       \A i \in DOMAIN disk :
         (HasInlineSecret(disk[i]) /\ disk[i].opts["api"] # "ac1")
           => SecretMoved(disk[i], disk', keyring')]_vars

\* A load has migrated a store below 0.4.0 and a profile's secret is in the
\* keyring.
C12_Witness ==
  /\ last.cmd \in LoadOnly
  /\ last.migrated
  /\ VersionLess(last.found, "0.4.0")
  /\ \E e \in keyring : HasSection(disk, e.scope)

\* The profiles of a store whose api is ac1.
Ac1Profiles(cfg) ==
  {cfg[i].name : i \in {j \in DOMAIN cfg :
     IsProfile(cfg[j]) /\ cfg[j].opts["api"] = "ac1"}}

\* The first profile of a store, None when it has none.
FirstProfile(cfg) ==
  IF Len(Sections(cfg)) > 0 THEN Sections(cfg)[1] ELSE PyNone

\* C13: after the load of a store below 0.5.0, no ac1 profile is left, and
\* a default pointer that named a removed profile names the first profile
\* left, or is absent when none is left.
C13_Ac1RemovedAndDefaultRepointed ==
  [][(MigratedByLoad /\ VersionLess(StoredVersion(disk), "0.5.0")) =>
       /\ Ac1Profiles(disk') = {}
       /\ Get(disk, "etc", "default", PyNone) \in Ac1Profiles(disk)
            => /\ Get(disk', "etc", "env", PyNone) = FirstProfile(disk')
               /\ Get(disk', "etc", "default", PyNone) = PyNone]_vars

\* A store below 0.5.0 whose default names an ac1 profile, with another
\* profile to fall back on, and whose load completes and saves.
C13_Witness ==
  /\ VersionLess(StoredVersion(disk), "0.5.0")
  /\ Get(disk, "etc", "default", PyNone) \in Ac1Profiles(disk)
  /\ Range(Sections(disk)) \ Ac1Profiles(disk) # {}
  /\ Load(disk, keyring, dirExists).saved
  /\ Ac1Profiles(Load(disk, keyring, dirExists).disk) = {}

(***************************************************************************)
(* The stored version across the settings commands.                        *)
(***************************************************************************)

\* A step of a load, an add, an edit or a remove (purge and a refused
\* command aside).
VersionKeepingStep ==
  /\ last'.cmd \in {"list", "show", "default", "add", "edit", "remove"}
  /\ last'.out = "ok"

\* C14: over loads, adds, edits and removes the version stored in the global
\* settings (read as check_and_upgrade_config reads it) never becomes lower
\* than it was.
C14_VersionNeverLowered ==
  [][VersionKeepingStep
       => ~VersionLess(StoredVersion(disk'), StoredVersion(disk))]_vars

(***************************************************************************)
(* Environment.get and Environment.set as functions of the parsed          *)
(* configuration.  The parser is a RawConfigParser(allow_no_value=True)    *)
(* (environment.py line 112): a line that holds a key and no "=" is read   *)
(* as an option whose value is None.  SpecAccess starts from small         *)
(* configurations whose options are absent, stored without a value or      *)
(* stored with a value, and applies Environment.set to them.               *)
(***************************************************************************)
AccessSections == {"a", "etc"}

AccessOptions == {"key", "host"}

AccessValues == {PyNone, "k1"}

\* A section whose key and host are absent, without a value, or set.
AccessSection(name, key, host) ==
  [name |-> name,
   opts |-> [NoOptions EXCEPT !["key"] = key, !["host"] = host]]

AccessConfigs ==
  LET S == {AccessSection(n, k, h) :
              n \in AccessSections, k \in {Absent} \cup AccessValues,
              h \in {Absent} \cup AccessValues}
  IN {c \in UNION {[1..n -> S] : n \in 0..2} : DistinctNames(c)}

InitOfAccess ==
  /\ InitCall
  /\ last = NoCommand
  /\ dirExists = TRUE
  /\ keyring = {}
  /\ disk \in AccessConfigs

\* One call of Environment.set on the configuration.
SetOption ==
  \E s \in AccessSections, k \in AccessOptions, value \in AccessValues :
    /\ disk' = Set(disk, s, k, value)
    /\ last' = [NoCommand EXCEPT !.cmd = "set", !.name = s, !.key = k,
                                 !.out = value]
    /\ UNCHANGED <<dirExists, keyring, callVars>>

NextAccess == SetOption

SpecAccess == InitOfAccess /\ [][NextAccess]_vars

\* The step of a call set(name, key, None).
SetNoneStep == last'.cmd = "set" /\ last'.out = PyNone

\* C15: after set(name, key, None), get(name, key, d) returns d for every
\* default d, whatever was stored under the key before, and the call
\* creates no section.
C15_SetNoneThenGetReturnsDefault ==
  [][SetNoneStep =>
       /\ \A d \in {PyNone, "d1", "d2"} :
            Get(disk', last'.name, last'.key, d) = d
       /\ HasSection(disk', last'.name) => HasSection(disk, last'.name)]_vars

(***************************************************************************)
(* Commands that are given a name the store has no section for.            *)
(***************************************************************************)

\* The outcomes of edit, remove, show and default for the name, on the
\* store as it is.
NamedOutcomes(name) ==
  {EditResult(name, key, secret, confirm).last.out :
     key \in Logins, secret \in SecretAnswers(name), confirm \in BOOLEAN}
  \cup {RemoveResult(name, confirm).last.out : confirm \in BOOLEAN}
  \cup {ShowResult(name).last.out, DefaultResult(name).last.out}

\* The load of the store succeeds and leaves no section of that name.
AbsentAfterLoad(L, name) == L.err = "" /\ ~HasSection(L.cfg, name)

\* A call was started with an explicit environment the store does not hold.
CalledWithAbsentName ==
  /\ last.cmd = "call"
  /\ last.name # PyNone
  /\ ~HasSection(disk, last.name)

\* C16: edit, remove, show and default given a name the store does not hold
\* end in the not-found abort, and so does a call that selects such a name.
C16_AbsentNameIsNotFound ==
  /\ \A name \in Names :
       AbsentAfterLoad(Load(disk, keyring, dirExists), name)
       => NamedOutcomes(name) = {"abort: not found"}
  /\ CalledWithAbsentName => (pc = "exited" /\ exit = "abort: not found")

\* The half of C16 about the settings commands.
C16_SettingsHalf ==
  \A name \in Names :
    AbsentAfterLoad(Load(disk, keyring, dirExists), name)
    => NamedOutcomes(name) = {"abort: not found"}

\* A call was started without an environment on a store that has no
\* profile and no default.
CalledWithNothingConfigured ==
  /\ last.cmd = "call"
  /\ last.name = PyNone
  /\ Sections(disk) = <<>>
  /\ Default(disk) = PyNone

\* C17: a call without an environment, on a store without default and
\* without profiles, aborts with the insufficient-configuration message: no
\* secret has been prompted for and nothing has been dispatched.
C17_InsufficientConfigAborts ==
  CalledWithNothingConfigured
  => /\ pc = "exited"
     /\ exit = "abort: insufficient config"
     /\ config.secret = PyNone
     /\ calls = <<>>

C17_Witness ==
  CalledWithNothingConfigured /\ exit = "abort: insufficient config"

\* The row the loop read last was dispatched and the backend answered it
\* with a failure.
LastRowFailed ==
  /\ InBatch
  /\ row >= 1
  /\ Len(calls) = row
  /\ ~StartsWith2(calls[row].status)

\* C18: in a batch, for both API families, every dispatched row the backend
\* answered with a failure is on record as FALSE, and right after such a
\* row the process has not ended with an error: the loop goes on to the
\* next row, or the batch is done with exit status zero.
C18_RowFailureIsRecordedAndIsolated ==
  InBatch
  => /\ Len(results) = Len(calls)
     /\ \A i \in DOMAIN calls :
          ~StartsWith2(calls[i].status) => results[i] = <<table[i][1], FALSE>>
     /\ LastRowFailed => (pc \in {"loop", "done"} /\ exit = "")

\* A batch of two rows under one family is done, its first row failed and
\* its second row was dispatched all the same.
C18_Witness ==
  /\ InBatch /\ pc = "done" /\ Len(calls) = 2
  /\ ~StartsWith2(calls[1].status)
  /\ results[1][2] = FALSE

(***************************************************************************)
(* The purge, checked under Spec.                                          *)
(***************************************************************************)

\* The step of a confirmed purge that ran to its end.
PurgeCompletes == last'.cmd = "purge" /\ last'.out = "ok"

\* C19: when a confirmed purge has completed, the configuration file is
\* gone with its directory (no profile, no global settings), and for every
\* profile the store held when the purge started the keyring has no entry
\* under the profile's name and login.
C19_PurgeLeavesNothing ==
  [][PurgeCompletes =>
       /\ disk' = <<>>
       /\ ~dirExists'
       /\ \A i \in DOMAIN disk :
            IsProfile(disk[i])
            => ~HasSecret(keyring', disk[i].name,
                          Get(disk, disk[i].name, "key", PyNone))]_vars

\* A confirmed purge has completed and has deleted the keyring entry of a
\* profile.
C19_Witness == Completed({"purge"}) /\ last.hadSecret /\ ~dirExists

(***************************************************************************)
(* Environment.save and the read of the next Environment.__init__, on the  *)
(* text of a setting.  The description of a profile is free text: the      *)
(* prompt of Environment.edit validates it against no pattern and only     *)
(* asks again while it is empty.  RawConfigParser.write puts "key = value" *)
(* on a line with the value as it is; RawConfigParser.read takes the       *)
(* value back from the line: the blanks after the "=" are skipped, a ";"   *)
(* that follows a blank starts a comment, the rest is stripped, and a      *)
(* value of two double quotes is the empty value.                          *)
(* SpecRoundTrip keeps in disk the file as a sequence of sections          *)
(* [name, description], the description being the text on the line.        *)
(***************************************************************************)

\* Bound of the model: the length of a description.
MaxText == 3

Chars == {"a", " ", ";", "\""}

\* The descriptions the prompt accepts: every text that is not empty.
Texts == UNION {[1..n -> Chars] : n \in 1..MaxText}

IsSpace(c) == c = " "

\* str.lstrip and str.rstrip on blanks
RECURSIVE LStrip(_)
LStrip(t) == IF t # <<>> /\ IsSpace(Head(t)) THEN LStrip(Tail(t)) ELSE t

RECURSIVE RStrip(_)
RStrip(t) ==
  IF t # <<>> /\ IsSpace(t[Len(t)]) THEN RStrip(SubSeq(t, 1, Len(t) - 1)) ELSE t

\* str.find(';'), counted from 0; -1 when there is none
Find(t) ==
  IF \E i \in DOMAIN t : t[i] = ";"
  THEN (CHOOSE i \in DOMAIN t : t[i] = ";" /\ \A j \in 1..(i - 1) : t[j] # ";") - 1
  ELSE -1

\* optval[pos - 1] of Python: the character before position pos, the last
\* character when pos is 0.
CharBefore(t, pos) == IF pos = 0 THEN t[Len(t)] ELSE t[pos]

\* RawConfigParser._read on the value of an option line: a ";" after a
\* blank starts a comment.
CutComment(t) ==
  IF Find(t) # -1 /\ IsSpace(CharBefore(t, Find(t)))
  THEN SubSeq(t, 1, Find(t))
  ELSE t

\* The value RawConfigParser._read takes from the text after "key =".
ReadValue(text) ==
  LET v == RStrip(LStrip(CutComment(LStrip(text))))
  IN IF v = <<"\"", "\"">> THEN <<>> ELSE v

\* RawConfigParser.write: the value is written as it is.
WriteValue(value) == value

\* Environment.save of the configuration: one section after another.
WriteFile(cfg) ==
  [i \in DOMAIN cfg |->
     [name |-> cfg[i].name, description |-> WriteValue(cfg[i].description)]]

\* config.read of the file.
ReadFile(file) ==
  [i \in DOMAIN file |->
     [name |-> file[i].name, description |-> ReadValue(file[i].description)]]

\* Environment.set(name, 'description', description), line 469.
SetDescription(cfg, name, description) ==
  IF HasSection(cfg, name)
  THEN [cfg EXCEPT ![SectionIndex(cfg, name)].description = description]
  ELSE Append(cfg, [name |-> name, description |-> description])

InitOfRoundTrip ==
  /\ InitCall
  /\ last = NoCommand
  /\ dirExists = TRUE
  /\ keyring = {}
  /\ disk = <<>>

\* A command reads the file, sets the description of a profile and saves.
SaveDescribed ==
  \E name \in Names, description \in Texts :
    /\ disk' = WriteFile(SetDescription(ReadFile(disk), name, description))
    /\ last' = [NoCommand EXCEPT !.cmd = "save", !.name = name,
                                 !.out = description]
    /\ UNCHANGED <<dirExists, keyring, callVars>>

NextRoundTrip == SaveDescribed

SpecRoundTrip == InitOfRoundTrip /\ [][NextRoundTrip]_vars

\* C20: the read of the file a save has written gives the configuration
\* that was in memory at the save: the same profiles with the same
\* settings.
C20_SaveThenLoadReproduces ==
  [][last'.cmd = "save" =>
       ReadFile(disk') =
         SetDescription(ReadFile(disk), last'.name, last'.out)]_vars

(***************************************************************************)
(* The default command, checked under Spec.                                *)
(***************************************************************************)

\* The load of the store succeeds and leaves a profile of that name.
ProfileAfterLoad(L, name) ==
  L.err = "" /\ HasSection(L.cfg, name) /\ name # "etc"

\* C21: "settings default <name>", for a profile the store holds, ends
\* normally with the default pointer of the saved store equal to the name.
C21_DefaultCommandSetsPointer ==
  \A name \in Names :
    ProfileAfterLoad(Load(disk, keyring, dirExists), name)
    => /\ DefaultResult(name).last.out = "ok"
       /\ Get(DefaultResult(name).disk, "etc", "env", PyNone) = name

(***************************************************************************)
(* The report of the migration, checked under Spec.                        *)
(***************************************************************************)

\* Every change the steps noted is in what the load echoed.
ReportsAll(L, upgrades) ==
  \A i \in DOMAIN upgrades : \E j \in DOMAIN L.reported : L.reported[j] = upgrades[i]

\* C22: when the load of an existing store has run a migration step and
\* saved, the changes the steps noted are all in what it reported.
C22_MigrationIsReported ==
  (disk # <<>> /\ Load(disk, keyring, dirExists).saved)
  => ReportsAll(Load(disk, keyring, dirExists),
                Upgrade(disk, keyring, StoredVersion(disk)).upgrades)

(***************************************************************************)
(* The admin prefix of the account API, checked under SpecCall.            *)
(***************************************************************************)

\* The first path segment of the endpoint is the segment "admin".
FirstSegmentIsAdmin(endpoint_) == Len(endpoint_) >= 1 /\ endpoint_[1] = "admin"

\* C23: a single call of a profile that is not an admin one: when the first
\* segment of the endpoint (after "v2/") is "admin", the segment is not in
\* the dispatched endpoint and the configuration is an admin one; otherwise
\* the endpoint is dispatched as it is and the configuration stays as it
\* was.  In a batch, once a call was an admin call every later one is.
C23_AdminSegmentStripped ==
  /\ (api = "ac2" /\ ~InBatch /\ pc = "done")
     => IF FirstSegmentIsAdmin(WithoutV2(endpoint))
        THEN /\ calls[1].endpoint = Tail(WithoutV2(endpoint))
             /\ calls[1].is_admin
             /\ config.is_admin
        ELSE /\ calls[1].endpoint = WithoutV2(endpoint)
             /\ ~calls[1].is_admin
             /\ ~config.is_admin
  /\ (api = "ac2" /\ InBatch)
     => \A i, j \in DOMAIN calls :
          (i <= j /\ calls[i].is_admin) => (calls[j].is_admin /\ config.is_admin)

(***************************************************************************)
(* The order of a batch, checked under SpecCall.                           *)
(***************************************************************************)

\* C24: in a batch the rows are handled one after another in file order:
\* while a row is being templated, parsed or made ready every earlier row
\* is on record and this one is not; a row is only made ready or dispatched
\* with parameters that were templated and parsed; and a row is dispatched
\* at most once, so there are as many calls as results and never more than
\* rows read.
C24_RowsInOrderOnceEach ==
  InBatch
  => /\ Len(calls) = Len(results)
     /\ Len(calls) <= row
     /\ row <= Len(table)
     /\ pc \in {"templated", "parsed", "ready"} => Len(results) = row - 1
     /\ pc = "loop" => Len(results) = row
     /\ pc \in {"parsed", "ready"} => ParseParams(call_params)
     /\ \A i \in DOMAIN results : results[i][1] = table[i][1]
     /\ \A i \in DOMAIN calls : ParseParams(calls[i].params)

\* A batch of two rows is done: both rows were dispatched, in order.
C24_Witness ==
  /\ InBatch /\ pc = "done"
  /\ row = 2 /\ Len(calls) = 2
  /\ results[1][1] = table[1][1] /\ results[2][1] = table[2][1]

(***************************************************************************)
(* The completion of the migration, checked under Spec.                    *)
(***************************************************************************)

\* C25: the load of a stored store whose version is below 0.5.0 runs the
\* migration to its end and saves the migrated store.
C25_MigrationRunsToTheEnd ==
  (dirExists /\ disk # <<>> /\ VersionLess(StoredVersion(disk), "0.5.0"))
  => /\ Load(disk, keyring, dirExists).err = ""
     /\ Load(disk, keyring, dirExists).saved

\* C26: in a batch of the account API whose endpoint template holds no
\* placeholder, every call has the endpoint and the admin flag of the first.
C26_SameEndpointForEveryRow ==
  (InBatch /\ api = "ac2" /\ FindAll(endpoint) = <<>>)
  => \A i \in DOMAIN calls :
       /\ calls[i].endpoint = calls[1].endpoint
       /\ calls[i].is_admin = calls[1].is_admin

(***************************************************************************)
(* Commands that stop without acting, checked under Spec.                  *)
(***************************************************************************)

\* The step of a command that stopped at a declined confirmation or at a
\* name the store does not hold.
StoppedWithoutActing ==
  last'.out \in {"abort: declined", "abort: not found"}

\* C27: when a settings command stops because its confirmation is declined
\* or its name is not in the store, the file and the keyring are as the
\* load at the start of the command left them.
C27_StoppedCommandChangesNothing ==
  [][StoppedWithoutActing =>
       /\ disk' = Load(disk, keyring, dirExists).disk
       /\ keyring' = Load(disk, keyring, dirExists).kr
       /\ dirExists' = dirExists]_vars

\* A remove was declined on a store that holds a profile and its secret.
C27_Witness ==
  /\ last.cmd = "remove" /\ last.out = "abort: declined"
  /\ Len(Sections(disk)) > 0
  /\ \E i \in DOMAIN disk :
       HasSecret(keyring, disk[i].name, Get(disk, disk[i].name, "key", PyNone))

====================================================================
